---- MODULE Spec2Model ----
(***************************************************************************)
(* Model of euler_paths.py: an adjacency matrix is scanned into edge       *)
(* constraints over two uninterpreted functions P and t, the constraint    *)
(* set is handed to an SMT solver, and on a model the path P(0..k) is      *)
(* decoded.                                                                *)
(***************************************************************************)
EXTENDS Integers, Sequences, FiniteSets, Bags, TLC

(* Bounds of the input families explored besides the built-in matrix. *)
MaxN == 4
MaxK == 3
MaxDim == 2

VARIABLES pc, adj, n, i, j, k, cons, r, smodel, m, results, printed

vars == <<pc, adj, n, i, j, k, cons, r, smodel, m, results, printed>>

(***************************************************************************)
(* Matrices.  A matrix is a record [rows, cols, m] with m a function on    *)
(* <<row, col>> pairs, indices from 0 as in numpy.                         *)
(***************************************************************************)
Matrix(rows) ==
  [rows |-> Len(rows), cols |-> Len(rows[1]),
   m |-> [c \in (0..(Len(rows) - 1)) \X (0..(Len(rows[1]) - 1)) |->
            rows[c[1] + 1][c[2] + 1]]]

(* The matrix euler_paths.py is shipped with. *)
ExampleAdj ==
  Matrix(<< <<0,1,0,0,0,1>>, <<1,0,1,1,2,0>>, <<0,1,0,0,0,1>>,
            <<0,1,0,2,1,0>>, <<0,2,0,1,0,0>>, <<1,0,1,0,0,0>> >>)

(* Upper-triangle cells of an nn x nn matrix. *)
Upper(nn) == {c \in (0..(nn - 1)) \X (0..(nn - 1)) : c[1] <= c[2]}

ZeroGraph(nn) ==
  [rows |-> nn, cols |-> nn, m |-> [c \in (0..(nn - 1)) \X (0..(nn - 1)) |-> 0]]

(* One more edge between c[1] and c[2], kept symmetric. *)
AddEdge(g, c) ==
  [g EXCEPT !.m = [d \in DOMAIN g.m |->
     IF d = c \/ d = <<c[2], c[1]>> THEN g.m[d] + 1 ELSE g.m[d]]]

RECURSIVE GraphsWith(_, _)
GraphsWith(nn, kk) ==
  IF kk = 0 THEN {ZeroGraph(nn)}
  ELSE LET prev == GraphsWith(nn, kk - 1)
       IN  prev \cup {AddEdge(g, c) : g \in prev, c \in Upper(nn)}

(* Symmetric non-negative matrices on at most MaxN vertices, at most MaxK edges. *)
Graphs == UNION {GraphsWith(nn, MaxK) : nn \in 1..MaxN}

(* Every small matrix, well-formed or not: any shape, entries in -1..1. *)
SmallMatrices ==
  UNION {{[rows |-> rr, cols |-> cc, m |-> f] :
            f \in [(0..(rr - 1)) \X (0..(cc - 1)) -> {0 - 1, 0, 1}]} :
         rr \in 1..MaxDim, cc \in 1..MaxDim}

Inputs == {ExampleAdj} \cup Graphs \cup SmallMatrices

(***************************************************************************)
(* Constraints.  s.add(...) collects assertions; each is a record          *)
(*   edge: Or(And(P(t(e))==x, P(t(e)+1)==y), And(P(t(e))==y, P(t(e)+1)==x))*)
(*   le:   t(e) <= x          ge:  t(e) >= x         neq: t(e) != t(x)     *)
(***************************************************************************)
EdgeC(e, u, v) == [kind |-> "edge", e |-> e, x |-> u, y |-> v]
LeC(e, b) == [kind |-> "le", e |-> e, x |-> b, y |-> 0]
GeC(e, b) == [kind |-> "ge", e |-> e, x |-> b, y |-> 0]
NeqC(a, b) == [kind |-> "neq", e |-> a, x |-> b, y |-> 0]

(* Truth of one assertion under an assignment: t a function on edge        *)
(* indices, P a function on the positions the assignment interprets.       *)
Holds(c, t, P) ==
  CASE c.kind = "edge" ->
         /\ t[c.e] \in DOMAIN P
         /\ t[c.e] + 1 \in DOMAIN P
         /\ \/ P[t[c.e]] = c.x /\ P[t[c.e] + 1] = c.y
            \/ P[t[c.e]] = c.y /\ P[t[c.e] + 1] = c.x
    [] c.kind = "le" -> t[c.e] <= c.x
    [] c.kind = "ge" -> t[c.e] >= c.x
    [] c.kind = "neq" -> t[c.e] # t[c.x]

Satisfies(cs, t, P) == \A c \in cs : Holds(c, t, P)

(***************************************************************************)
(* The solver.  s.check() decides the asserted set; the assignments it may *)
(* return are exactly those satisfying every assertion.  Only finitely     *)
(* many arguments matter: t at the edge indices 0..kk-1 and P at the       *)
(* positions t(e), t(e)+1 the edge assertions mention, so an assignment is *)
(* [t |-> function on 0..kk-1, P |-> function on the pinned positions].    *)
(*                                                                         *)
(* The assignments are enumerated slot value by slot value: for each value *)
(* s in increasing order, the group of still unassigned edge indices that  *)
(* take t(e) = s is chosen, P(s) and P(s+1) are fixed as the group's edge  *)
(* assertions demand, and the search goes on to s+1.  Every function t     *)
(* into the candidate values arises from exactly one sequence of groups    *)
(* (the preimages of the values), so the enumeration is complete for any   *)
(* assertion set; the pruning rules below only cut branches in which some  *)
(* assertion of the set fails.                                             *)
(***************************************************************************)
(* Candidate values of t(e) for kk edge indices: the range assertions      *)
(* admit 0..kk-1, the search also offers one value on each side.           *)
TCand(kk) == (0 - 1)..kk

(* Values of t(e) that the le/ge assertions on e admit. *)
TDom(cs, kk, e) ==
  {s \in TCand(kk) :
     \A c \in cs : (c.e = e /\ c.kind = "le" => s <= c.x)
                /\ (c.e = e /\ c.kind = "ge" => s >= c.x)}

(* Edge indices that some assertion forbids to share a value with e. *)
Apart(cs, idx, e) ==
  {f \in idx : NeqC(e, f) \in cs \/ NeqC(f, e) \in cs}

EdgeOf(cs, e) == {c \in cs : c.kind = "edge" /\ c.e = e}

ExtendP(P, s, a, b) ==
  [p \in DOMAIN P \cup {s, s + 1} |->
     IF p = s THEN a ELSE IF p = s + 1 THEN b ELSE P[p]]

(* The ways to interpret P at s, s+1 so that the edge assertions ecs, all  *)
(* placed at slot s, hold, given what P already interprets.                *)
Pins(ecs, s, P) ==
  IF ecs = {} THEN {P}
  ELSE {ExtendP(P, s, ab[1], ab[2]) :
          ab \in {o \in UNION {{<<c.x, c.y>>, <<c.y, c.x>>} : c \in ecs} :
                    /\ s \in DOMAIN P => P[s] = o[1]
                    /\ s + 1 \in DOMAIN P => P[s + 1] = o[2]
                    /\ \A c \in ecs : \/ o[1] = c.x /\ o[2] = c.y
                                      \/ o[1] = c.y /\ o[2] = c.x}}

(* Groups of unassigned indices that may all take the value s: s is in     *)
(* each one's range and no two are asserted different.  When every pair is *)
(* asserted different (allDiff) a group has at most one member.            *)
Groups(dom, apart, allDiff, s, un) ==
  LET cand == {e \in un : s \in dom[e]}
  IN  IF allDiff THEN {{}} \cup {{e} : e \in cand}
      ELSE {G \in SUBSET cand : \A a \in G : G \cap apart[a] = {}}

RECURSIVE Search(_, _, _, _, _, _, _, _, _, _)
Search(cs, dom, apart, ec, allDiff, vals, s, un, t, P) ==
  IF un = {}
  THEN IF Satisfies(cs, t, P) THEN {[t |-> t, P |-> P]} ELSE {}
  ELSE IF \A v \in vals : v < s THEN {}
  ELSE IF allDiff /\ Cardinality(un) > Cardinality({v \in vals : v >= s})
  THEN {}   \* pairwise different values needed, fewer values left than indices
  ELSE UNION {UNION {Search(cs, dom, apart, ec, allDiff, vals, s + 1, un \ G,
                            [e \in DOMAIN t \cup G |-> IF e \in G THEN s ELSE t[e]],
                            P2) :
                       P2 \in Pins(UNION {ec[e] : e \in G}, s, P)} :
                G \in Groups(dom, apart, allDiff, s, un)}

(* Edge indices the assertions mention. *)
Indices(cs) ==
  {c.e : c \in cs} \cup {c.x : c \in {d \in cs : d.kind = "neq"}}

Models(cs) ==
  LET idx == Indices(cs)
      dom == [e \in idx |-> TDom(cs, Cardinality(idx), e)]
      apart == [e \in idx |-> Apart(cs, idx, e)]
  IN  Search(cs, dom, apart,
             [e \in idx |-> EdgeOf(cs, e)],
             \A e \in idx : idx \ {e} \subseteq apart[e],
             UNION {dom[e] : e \in idx},
             0 - 1, idx, <<>>, <<>>)

(* The same set, straight from the definition: every t into the candidate *)
(* values, every P on the positions the edge assertions mention with the   *)
(* values they mention.  Usable for a handful of edges only.               *)
BruteModels(cs) ==
  LET idx == Indices(cs)
      ecs == {c \in cs : c.kind = "edge"}
      vals == UNION {{c.x, c.y} : c \in ecs}
  IN  UNION {{[t |-> t, P |-> P] :
                P \in {Q \in [UNION {{t[c.e], t[c.e] + 1} : c \in ecs} -> vals] :
                         Satisfies(cs, t, Q)}} :
             t \in [idx -> TCand(Cardinality(idx))]}

(* What s.check() may answer on the assertions cs: sat with an assignment  *)
(* the solver keeps, unsat when there is none, or unknown when it gives up.*)
NoModel == [t |-> <<>>, P |-> <<>>, none |-> TRUE]

Answers(cs) ==
  LET ms == Models(cs)
  IN  {[r |-> "unknown", model |-> NoModel]} \cup
      (IF ms = {} THEN {[r |-> "unsat", model |-> NoModel]}
       ELSE {[r |-> "sat", model |-> mm] : mm \in ms})

(***************************************************************************)
(* The program.                                                            *)
(***************************************************************************)
Init ==
  /\ pc = "load"
  /\ adj \in Inputs
  /\ n = 0 /\ i = 0 /\ j = 0 /\ k = 0
  /\ cons = {}
  /\ r = "none"
  /\ smodel = NoModel
  /\ m = NoModel
  /\ results = <<>>
  /\ printed = <<>>

(* n = np.shape(adj)[0]; print(adj); k = 0 *)
Load ==
  /\ pc = "load"
  /\ n' = adj.rows
  /\ printed' = Append(printed, "adj")
  /\ k' = 0 /\ i' = 0 /\ j' = 0
  /\ pc' = "edges"
  /\ UNCHANGED <<adj, cons, r, smodel, m, results>>

(* range(a): 0..a-1, empty when a <= 0. *)
Range(a) == 0..(a - 1)

(* First column the inner loop visits in row ii: range(i, n). *)
FirstColWholeRow(ii) == 0

FirstCol(ii) == ii

(* The assertions added for a cell of multiplicity a between u and v, the  *)
(* edge counter standing at kk.                                            *)
EdgeAssertionsOffDiagonal(kk, u, v, a) ==
  IF a # 0 /\ u # v THEN {EdgeC(kk + g, u, v) : g \in Range(a)} ELSE {}

EdgeAssertions(kk, u, v, a) ==
  IF a # 0 THEN {EdgeC(kk + g, u, v) : g \in Range(a)} ELSE {}

(* The edge counter after that cell. *)
CountAfterOncePerCell(kk, a) == IF a # 0 THEN kk + 1 ELSE kk

CountAfter(kk, a) == IF a # 0 THEN kk + Cardinality(Range(a)) ELSE kk

(* One cell (i, j) of the scan of the upper triangle. *)
ScanCell ==
  /\ pc = "edges"
  /\ IF <<i, j>> \notin DOMAIN adj.m
     THEN (* adj[i,j] outside the matrix: IndexError *)
          /\ pc' = "crashed"
          /\ printed' = Append(printed, "IndexError")
          /\ UNCHANGED <<i, j, k, cons>>
     ELSE /\ cons' = cons \cup EdgeAssertions(k, i, j, adj.m[<<i, j>>])
          /\ k' = CountAfter(k, adj.m[<<i, j>>])
          /\ IF j + 1 < n THEN i' = i /\ j' = j + 1 /\ pc' = pc
             ELSE IF i + 1 < n THEN i' = i + 1 /\ j' = FirstCol(i + 1) /\ pc' = pc
             ELSE i' = 0 /\ j' = 0 /\ pc' = "perm"
          /\ UNCHANGED printed
  /\ UNCHANGED <<adj, n, r, smodel, m, results>>

(* The assertions added for edge index ii by the second loop. *)
RangeAssertionsNoUpper(ii, kk) == {GeC(ii, 0)}

RangeAssertions(ii, kk) == {LeC(ii, kk - 1), GeC(ii, 0)}

DistinctAssertionsNone(ii, kk) == {}

DistinctAssertions(ii, kk) == {NeqC(ii, jj) : jj \in Range(kk) \ {ii}}

(* One iteration of "for i in range(k)". *)
PermRow ==
  /\ pc = "perm"
  /\ i < k
  /\ cons' = cons \cup RangeAssertions(i, k) \cup DistinctAssertions(i, k)
  /\ i' = i + 1
  /\ UNCHANGED <<pc, adj, n, j, k, r, smodel, m, results, printed>>

(* print(s) *)
PrintConstraints ==
  /\ pc = "perm"
  /\ i >= k
  /\ printed' = Append(printed, "constraints")
  /\ pc' = "check"
  /\ UNCHANGED <<adj, n, i, j, k, cons, r, smodel, m, results>>

(* r = s.check(); print(r) *)
Check ==
  /\ pc = "check"
  /\ \E ans \in Answers(cons) : r' = ans.r /\ smodel' = ans.model
  /\ printed' = Append(printed, r')
  /\ pc' = "verdict"
  /\ UNCHANGED <<adj, n, i, j, k, cons, m, results>>

(* if r == unsat *)
IsUnsatUnknown(v) == v = "unknown"

IsUnsat(v) == v = "unsat"

(* exit() *)
ExitUnsat ==
  /\ pc = "verdict"
  /\ IsUnsat(r)
  /\ pc' = "exited"
  /\ UNCHANGED <<adj, n, i, j, k, cons, r, smodel, m, results, printed>>

(* m = s.model(); print(m.sexpr()).  Without an assignment in the solver   *)
(* s.model() raises Z3Exception("model is not available").                 *)
GetModel ==
  /\ pc = "verdict"
  /\ ~IsUnsat(r)
  /\ IF smodel = NoModel
     THEN /\ pc' = "crashed"
          /\ printed' = Append(printed, "Z3Exception")
          /\ UNCHANGED <<m, i>>
     ELSE /\ m' = smodel
          /\ printed' = Append(printed, "model")
          /\ i' = 0
          /\ pc' = "decode"
  /\ UNCHANGED <<adj, n, j, k, cons, r, smodel, results>>

(* Last position decoded: range(k+1). *)
LastPos(kk) == kk

(* Values m.evaluate(P(x)) may take where no assertion constrains P(x). *)
FreeVals == (0 - 1)..n

(* results.append(m.evaluate(P(i)).as_long()).  Where the model pins P at  *)
(* i the value is that one.  Elsewhere the value is the default of the     *)
(* model's interpretation of P, any integer; when no assertion mentions P  *)
(* the model has no interpretation of it, evaluate hands back the term     *)
(* P(i), and the term has no as_long(): AttributeError.                    *)
DecodeStep ==
  /\ pc = "decode"
  /\ i <= LastPos(k)
  /\ \/ /\ i \in DOMAIN m.P
        /\ results' = Append(results, m.P[i])
        /\ i' = i + 1
        /\ UNCHANGED <<pc, printed>>
     \/ /\ i \notin DOMAIN m.P
        /\ DOMAIN m.P # {}
        /\ \E v \in FreeVals : results' = Append(results, v)
        /\ i' = i + 1
        /\ UNCHANGED <<pc, printed>>
     \/ /\ DOMAIN m.P = {}
        /\ pc' = "crashed"
        /\ printed' = Append(printed, "AttributeError")
        /\ UNCHANGED <<results, i>>
  /\ UNCHANGED <<adj, n, j, k, cons, r, smodel, m>>

(* print("An Euler path is given by: ", results) *)
PrintPath ==
  /\ pc = "decode"
  /\ i > LastPos(k)
  /\ printed' = Append(printed, "path")
  /\ pc' = "done"
  /\ UNCHANGED <<adj, n, i, j, k, cons, r, smodel, m, results>>

Next ==
  \/ Load
  \/ ScanCell
  \/ PermRow
  \/ PrintConstraints
  \/ Check
  \/ ExitUnsat
  \/ GetModel
  \/ DecodeStep
  \/ PrintPath

Spec == Init /\ [][Next]_vars

(***************************************************************************)
(* Lemma: the search enumerates exactly the satisfying assignments, on the *)
(* assertion sets the program builds for up to BruteK edges and on those   *)
(* sets with one assertion, or one kind of assertion, left out.            *)
(***************************************************************************)
BruteK == 2

SearchIsExact ==
  (pc = "check" /\ k <= BruteK) =>
    \A cs \in {cons} \cup {cons \ {c} : c \in cons}
              \cup {{c \in cons : c.kind # kd} : kd \in {"edge", "le", "ge", "neq"}} :
      Models(cs) = BruteModels(cs)

(***************************************************************************)
(* Graph notions used to state the properties, taken from the input matrix *)
(* alone (never from the assertions the program built).                    *)
(***************************************************************************)
Terminal == {"done", "exited", "crashed"}

(* The loader's input contract: square, non-negative, symmetric. *)
ValidMatrix(a) ==
  /\ a.rows = a.cols
  /\ \A c \in DOMAIN a.m : a.m[c] >= 0 /\ a.m[c] = a.m[<<c[2], c[1]>>]

Vertices(a) == 0..(a.rows - 1)

(* Edge occurrences between u <= v: the units of the upper-triangle entry. *)
Mult(a, u, v) ==
  IF <<u, v>> \in DOMAIN a.m /\ a.m[<<u, v>>] > 0 THEN a.m[<<u, v>>] ELSE 0

RECURSIVE SumOver(_, _)
SumOver(f, S) ==
  IF S = {} THEN 0
  ELSE LET x == CHOOSE y \in S : TRUE IN f[x] + SumOver(f, S \ {x})

(* A loop adds 2 to its vertex's degree. *)
Degree(a, v) ==
  SumOver([u \in Vertices(a) |->
             IF u = v THEN 2 * Mult(a, v, v)
             ELSE IF u < v THEN Mult(a, u, v) ELSE Mult(a, v, u)],
          Vertices(a))

OddVertices(a) == {v \in Vertices(a) : Degree(a, v) % 2 = 1}

Adjacent(a, u, v) == IF u <= v THEN Mult(a, u, v) > 0 ELSE Mult(a, v, u) > 0

RECURSIVE ReachFrom(_, _)
ReachFrom(a, S) ==
  LET T == S \cup {v \in Vertices(a) : \E u \in S : Adjacent(a, u, v)}
  IN  IF T = S THEN S ELSE ReachFrom(a, T)

Connected(a) == ReachFrom(a, {0}) = Vertices(a)

(* Vertices that carry an edge; the edges lie in one component when all of *)
(* them are reachable from one of them.                                     *)
Touched(a) == {v \in Vertices(a) : \E u \in Vertices(a) : Adjacent(a, u, v)}

EdgesSplit(a) ==
  \E v \in Touched(a) : ~(Touched(a) \subseteq ReachFrom(a, {v}))

(* The multiset of edge occurrences of the input, as a bag of pairs u <= v. *)
EdgeBag(a) ==
  [c \in {d \in Upper(a.rows) : Mult(a, d[1], d[2]) > 0} |-> Mult(a, c[1], c[2])]

(* The unordered pair at slot p (0-based) of a decoded path. *)
PairAt(path, p) ==
  IF path[p + 1] <= path[p + 2] THEN <<path[p + 1], path[p + 2]>>
  ELSE <<path[p + 2], path[p + 1]>>

(* The multiset of adjacent-position pairs of a decoded path. *)
PathBag(path) ==
  LET slots == 0..(Len(path) - 2)
  IN  [c \in {PairAt(path, p) : p \in slots} |->
         Cardinality({p \in slots : PairAt(path, p) = c})]

UpperSum(a) ==
  SumOver([c \in Upper(a.rows) |-> IF c \in DOMAIN a.m THEN a.m[c] ELSE 0],
          Upper(a.rows))

Triangle == Matrix(<< <<0,1,1>>, <<1,0,1>>, <<1,1,0>> >>)

TwoEdges == Matrix(<< <<0,1,0,0>>, <<1,0,0,0>>, <<0,0,0,1>>, <<0,0,1,0>> >>)

SingleVertex == Matrix(<< <<0>> >>)

Decided == r \in {"sat", "unsat"}

(***************************************************************************)
(* C1.  Parity law: for a connected multigraph given as a symmetric        *)
(* non-negative matrix, the asserted set has a satisfying assignment (the  *)
(* solver's definite answer is sat, not unsat) if and only if the number   *)
(* of odd-degree vertices is 0 or 2.                                       *)
(***************************************************************************)
C1_ParityLaw ==
  (ValidMatrix(adj) /\ Decided /\ Connected(adj)) =>
    (r = "sat" <=> Cardinality(OddVertices(adj)) \in {0, 2})

C1_Witness ==
  /\ ValidMatrix(adj) /\ Connected(adj)
  /\ r = "unsat"
  /\ Cardinality(OddVertices(adj)) = 4

(***************************************************************************)
(* C2.  A graph whose edges lie in more than one connected component has   *)
(* no satisfying assignment: the solver's definite answer is unsat; in     *)
(* particular for the two disjoint unit edges {0,1}, {2,3} on 4 vertices.  *)
(***************************************************************************)
C2_SplitUnsat ==
  /\ (ValidMatrix(adj) /\ Decided /\ EdgesSplit(adj)) => r = "unsat"
  /\ (adj = TwoEdges /\ Decided) => (r = "unsat" /\ k = 2 /\ results = <<>>)

C2_Witness == adj = TwoEdges /\ r = "unsat" /\ pc = "exited"

(***************************************************************************)
(* C3.  Coverage law: in every decoded path the k adjacent-position pairs, *)
(* as unordered pairs, are exactly the multiset of edge occurrences of the *)
(* input, and t is a bijection on 0..k-1 whose slot t(e) carries the       *)
(* endpoints of occurrence e.                                              *)
(***************************************************************************)
C3_Coverage ==
  pc = "done" =>
    /\ PathBag(results) = EdgeBag(adj)
    /\ DOMAIN m.t = 0..(k - 1)
    /\ {m.t[e] : e \in DOMAIN m.t} = 0..(k - 1)
    /\ \A e, f \in DOMAIN m.t : m.t[e] = m.t[f] => e = f
    /\ \A c \in cons : c.kind = "edge" =>
         PairAt(results, m.t[c.e]) \in {<<c.x, c.y>>, <<c.y, c.x>>}

C3_Witness ==
  /\ pc = "done" /\ k = 3
  /\ \E c \in DOMAIN adj.m : c[1] < c[2] /\ adj.m[c] = 2

(***************************************************************************)
(* C4.  A matrix that is non-square, has a negative entry or an asymmetric *)
(* pair is rejected before any assertion is added: no assertion, no        *)
(* verdict, no path.                                                       *)
(***************************************************************************)
C4_InvalidRejected ==
  ~ValidMatrix(adj) => (cons = {} /\ r = "none" /\ results = <<>>)

(***************************************************************************)
(* C5.  After an unknown verdict the run ends in an outcome of its own:    *)
(* the program does not go on to fetch a model as it does after sat, and   *)
(* it does not end in an uncaught exception.                               *)
(***************************************************************************)
C5_UnknownReported ==
  (ValidMatrix(adj) /\ r = "unknown") => (pc # "crashed" /\ printed[Len(printed)] # "Z3Exception")

(***************************************************************************)
(* C6.  For the single-vertex edgeless matrix a sat run has k = 0 and ends *)
(* with the decoded path <<0>>.                                            *)
(***************************************************************************)
C6_SingleVertexPath ==
  (adj = SingleVertex /\ r = "sat" /\ pc \in Terminal) =>
    (k = 0 /\ pc = "done" /\ results = <<0>>)

(***************************************************************************)
(* C7.  In every decoded path of a graph: with exactly two odd-degree      *)
(* vertices the first and last path vertices are those two; with none the  *)
(* first vertex equals the last.  The unit triangle gives a path of 4      *)
(* vertices with first = last; the shipped 6-vertex matrix gives k = 10,   *)
(* 11 path vertices and endpoints {1, 4}.                                  *)
(***************************************************************************)
C7_Endpoints ==
  /\ (pc = "done" /\ ValidMatrix(adj)) =>
       LET odd == OddVertices(adj)
           first == results[1]
           last == results[Len(results)]
       IN  /\ Cardinality(odd) = 2 => {first, last} = odd
           /\ Cardinality(odd) = 0 => first = last
           /\ adj = Triangle => (Len(results) = 4 /\ first = last)
           /\ adj = ExampleAdj =>
                (k = 10 /\ Len(results) = 11 /\ {first, last} = {1, 4})
  /\ (adj \in {Triangle, ExampleAdj} /\ Decided) =>
       (r = "sat" /\ (pc \in Terminal => pc = "done"))

C7_Witness == pc = "done" /\ adj = ExampleAdj /\ results[1] = 4

(***************************************************************************)
(* C8.  Self-loop law: for a vertex v with adj[v][v] loops, every decoded  *)
(* path has at least adj[v][v] distinct positions p in 0..k-1 with         *)
(* P(p) = v = P(p+1), one for each loop occurrence.                        *)
(***************************************************************************)
C8_SelfLoops ==
  pc = "done" =>
    \A v \in Vertices(adj) :
      Cardinality({p \in 0..(k - 1) : results[p + 1] = v /\ results[p + 2] = v})
        >= Mult(adj, v, v)

C8_Witness ==
  /\ pc = "done"
  /\ \E v \in Vertices(adj) : Mult(adj, v, v) = 2 /\ Degree(adj, v) > 4

(***************************************************************************)
(* C9.  For every input matrix that yields sat, the run decodes a path of  *)
(* k + 1 entries, and k is the sum of the upper-triangle entries, diagonal *)
(* included.  Stated here for well-formed matrices only, which is enough   *)
(* to refute it.                                                           *)
(***************************************************************************)
C9_Length ==
  (ValidMatrix(adj) /\ r = "sat" /\ pc \in Terminal) =>
    (pc = "done" /\ Len(results) = k + 1 /\ k = UpperSum(adj))

(***************************************************************************)
(* C10.  Decoding happens only after sat; after unsat the run reports it   *)
(* and exits with no model and no path; the phases load, encode, solve,    *)
(* decode are passed once each, in that order.                             *)
(***************************************************************************)
Phase(p) ==
  CASE p = "load" -> 0
    [] p = "edges" -> 1
    [] p = "perm" -> 2
    [] p = "check" -> 3
    [] p = "verdict" -> 4
    [] p = "decode" -> 5
    [] p \in Terminal -> 6

Count(seq, x) == Cardinality({q \in DOMAIN seq : seq[q] = x})

C10_Order ==
  /\ [](pc \in {"decode", "done"} => r = "sat")
  /\ [](r = "unsat" =>
          /\ pc \in {"verdict", "exited"}
          /\ m = NoModel /\ results = <<>>
          /\ printed[Len(printed)] = "unsat")
  /\ [](\A x \in {"adj", "constraints", "sat", "unsat", "unknown"} :
          Count(printed, x) <= 1)
  /\ [][/\ Phase(pc') >= Phase(pc)
        /\ pc \in Terminal => pc' = pc
        /\ (pc = "verdict" /\ r = "unsat") => pc' = "exited"]_vars

C10_Witness == pc = "exited" /\ r = "unsat" /\ k > 0

====
